---- MODULE Spec2Model ----
(***************************************************************************)
(* A model of the helpers of src/data/transforms.py and of the classifier  *)
(* of src/models/classifier.py.                                            *)
(*                                                                         *)
(* Tensors are records [shape, data]: shape is the sequence of dimension   *)
(* sizes, data maps every 0-based index tuple to an integer.  The torch    *)
(* operations the code calls (rot90, flip, transpose, indexing, randperm,  *)
(* stack, Linear) are modelled by what they compute on such tensors.       *)
(*                                                                         *)
(* A random-number generator is modelled by its state: the stream of raw   *)
(* draws it is going to produce.  Drawing returns the head of the stream   *)
(* and leaves the tail as the next state, so equal states give equal       *)
(* draws.  Python's process-wide generator (module random) and torch's     *)
(* global generator are two separate states, py and th.                    *)
(***************************************************************************)
EXTENDS Integers, Sequences, FiniteSets, TLC

VARIABLES
  \* ---- src/data/transforms.py: random_rotation_single, random_jigsaw_single
  vol,        \* the input volume, a channel-first tensor (C, D, H, W)
  py,         \* state of Python's generator (module random), first run
  th,         \* state of torch's global generator, first run
  op,         \* the helper called last: "none", "rot" or "jig"
  axis,       \* axis drawn by the last random_rotation_single, or -1
  turns,      \* k drawn by the last random_rotation_single, or -1
  perm,       \* permutation drawn by the last random_jigsaw_single, or << >>
  outVol,     \* volume returned by the last helper call, first run
  outLabel,   \* label returned by the last helper call, first run
  py2,        \* state of Python's generator, second run
  th2,        \* state of torch's global generator, second run
  out2Vol,    \* volume returned by the last helper call, second run
  out2Label,  \* label returned by the last helper call, second run
  seed,       \* the generator states both runs started from
  \* ---- src/data/transforms.py: augment_batch
  imgs,       \* the batch, a tensor (N, L) of N samples
  tf,         \* the transform handed to augment_batch
  tfServed,   \* calls the transform has served so far (its own state)
  callLog,    \* the argument of every call of the transform, in order
  result,     \* what augment_batch returned: a tensor, or Failed if it raised
  batchDone,  \* augment_batch has been called
  \* ---- src/data/transforms.py: get_monai_augment, build_transforms
  mean,       \* build_transforms' argument mean
  std,        \* build_transforms' argument std
  pipes,      \* what build_transforms returned, or << >> before the call
  running,    \* the pipeline (1..3) invoked on a sample, or 0
  pos,        \* stages of the running pipeline the sample has passed
  fired,      \* for each stage passed, whether it triggered
  sample,     \* the mapping the pipeline works on: key -> stages applied
  \* ---- src/models/classifier.py: EdemaHead, M3T_Edema
  lin,        \* the parameters of the head's Linear layer: weight and bias
  xRef,       \* an embedding batch (B, T, E)
  x,          \* xRef with some of its tokens changed
  logitsRef,  \* EdemaHead.forward(xRef), or NoTensor before the call
  logits,     \* EdemaHead.forward(x), or NoTensor before the call
  inVols,     \* the batch of volumes given to M3T_Edema.forward
  cls,        \* the first value the encoder returned for inVols
  modelOut    \* what M3T_Edema.forward returned, Failed if it raised

helperVars == <<vol, py, th, op, axis, turns, perm, outVol, outLabel,
                py2, th2, out2Vol, out2Label, seed>>

batchVars == <<imgs, tf, tfServed, callLog, result, batchDone>>

pipeVars == <<mean, std, pipes, running, pos, fired, sample>>

headVars == <<lin, xRef, x, logitsRef, logits, inVols, cls, modelOut>>

vars == <<helperVars, batchVars, pipeVars, headVars>>

----------------------------------------------------------------------------
(* Bounds of the model. *)

\* Largest number of channels of an input volume.
MaxChan == 1
\* Largest depth (dimension 1) of an input volume.
MaxDepth == 3
\* Largest height and width (dimensions 2 and 3) of an input volume.
MaxSide == 2
\* Number of raw draws a seeded state of Python's generator holds.
PyDraws == 2
\* Largest number of samples of a batch.
MaxBatch == 2
\* Number of elements of one sample of a batch.
SampleLen == 2
\* Largest normalisation mean tried; the deviations tried are 1..MaxNorm+1.
MaxNorm == 1
\* Largest number of embeddings (or volumes) of a batch given to the model.
MaxB == 2
\* Largest number of tokens of an embedding sequence.
MaxTokens == 2
\* The head's emb_size (cfg["emb_size"]; 256 by default).
EmbSize == 2
\* Number of parameter settings of the Linear layer tried.
MaxLin == 2

(* Program constants. *)

\* random.randint(0, 2): three axes.
NumAxes == 3
\* random.randint(0, 3): four counts of quarter turns.
NumTurns == 4
\* EdemaHead(cfg["emb_size"], 2): two classes.
Classes == 2

\* A raw draw is one of RawSize equally likely values; RawSize is the least
\* size that lets randint(0, 3) take each of its values.
RawSize == NumTurns
Raw == 0..(RawSize - 1)

----------------------------------------------------------------------------
(* Tensors. *)

RECURSIVE SeqMax(_)
SeqMax(s) ==
  IF s = << >> THEN 0
  ELSE LET m == SeqMax(Tail(s)) IN IF Head(s) > m THEN Head(s) ELSE m

\* All 0-based index tuples of a tensor of the given shape.
Indices(shape) ==
  {i \in [1..Len(shape) -> 0..(SeqMax(shape) - 1)] :
     \A d \in 1..Len(shape) : i[d] < shape[d]}

RECURSIVE NumElems(_)
NumElems(shape) ==
  IF shape = << >> THEN 1 ELSE Head(shape) * NumElems(Tail(shape))

\* Row-major position of index tuple i in a tensor of the given shape.
RECURSIVE LinearIndex(_, _)
LinearIndex(i, shape) ==
  IF shape = << >> THEN 0
  ELSE Head(i) * NumElems(Tail(shape)) + LinearIndex(Tail(i), Tail(shape))

\* torch.flip(t, dims): reverse t along every dimension in dims.
\* Dimension n of torch is position n + 1 of the shape.
Flip(t, dims) ==
  [shape |-> t.shape,
   data  |-> [i \in Indices(t.shape) |->
                t.data[[d \in 1..Len(t.shape) |->
                          IF (d - 1) \in dims
                          THEN t.shape[d] - 1 - i[d] ELSE i[d]]]]]

SwapAt(s, a, b) ==
  [d \in 1..Len(s) |-> IF d = a + 1 THEN s[b + 1]
                       ELSE IF d = b + 1 THEN s[a + 1] ELSE s[d]]

\* torch.transpose(t, a, b): exchange dimensions a and b.
Transpose(t, a, b) ==
  [shape |-> SwapAt(t.shape, a, b),
   data  |-> [i \in Indices(SwapAt(t.shape, a, b)) |->
                t.data[SwapAt(i, a, b)]]]

\* torch.rot90(t, k, dims): k quarter turns in the plane of dims, as ATen
\* computes it: k is reduced modulo 4; one turn is a flip of dims[1]
\* followed by a transpose, two turns flip both, three turns flip dims[0]
\* and transpose, no turn returns a copy.
Rot90(t, k, dims) ==
  LET n == k % 4 IN
  CASE n = 1 -> Transpose(Flip(t, {dims[2]}), dims[1], dims[2])
    [] n = 2 -> Flip(t, {dims[1], dims[2]})
    [] n = 3 -> Transpose(Flip(t, {dims[1]}), dims[1], dims[2])
    [] OTHER -> t

----------------------------------------------------------------------------
(* Random-number generators. *)

\* All generator states that hold n raw draws.
Streams(n) == [1..n -> Raw]

\* random.randint(a, b) on raw draw u: a value of a..b.
RandInt(a, b, u) == a + (u % (b - a + 1))

\* random.random() < 0.5 on raw draw u: random() is u / RawSize.
CoinBelowHalf(u) == 2 * u < RawSize

----------------------------------------------------------------------------
(* random_rotation_single *)

\* Fault: axis 1 rotates in the plane of axis 2.
DimsMapAxisOneWrongPlane(a) ==
  CASE a = 0 -> <<2, 3>>
    [] a = 1 -> <<1, 2>>
    [] a = 2 -> <<1, 2>>

\* dims_map = {0: (2, 3), 1: (1, 3), 2: (1, 2)}
DimsMap(a) ==
  CASE a = 0 -> <<2, 3>>
    [] a = 1 -> <<1, 3>>
    [] a = 2 -> <<1, 2>>

\* Fault: three labels per axis instead of four.
RotationLabelThreePerAxis(a, k) == a * 3 + k

\* Fault: the roles of axis and k exchanged.
RotationLabelTurnsMajor(a, k) == k * 3 + a

\* axis * 4 + k
RotationLabel(a, k) == a * 4 + k

\* Fault: k is drawn from torch's generator instead of Python's.
RandomRotationSingleTurnsFromTorch(v, p, t) ==
  LET a == RandInt(0, NumAxes - 1, p[1])
      k == RandInt(0, NumTurns - 1, IF t = << >> THEN 0 ELSE t[1])
  IN [vol |-> Rot90(v, k, DimsMap(a)), label |-> RotationLabel(a, k),
      axis |-> a, turns |-> k, py |-> Tail(p),
      th |-> IF t = << >> THEN t ELSE Tail(t)]

\* random_rotation_single(v) from generator states p (Python's) and t
\* (torch's): axis and k are both drawn from p; the result also gives the
\* states the call leaves the generators in.
RandomRotationSingle(v, p, t) ==
  LET a == RandInt(0, NumAxes - 1, p[1])
      k == RandInt(0, NumTurns - 1, p[2])
  IN [vol |-> Rot90(v, k, DimsMap(a)), label |-> RotationLabel(a, k),
      axis |-> a, turns |-> k, py |-> Tail(Tail(p)), th |-> t]

----------------------------------------------------------------------------
(* Input volumes. *)

Fills == {"const", "index", "depth"}

\* The voxel at index i of a volume of the given shape and fill: all zero,
\* all different (the row-major position), or the parity of the depth index
\* (so that slices 0 and 2 are equal).
Voxel(fill, i, shape) ==
  CASE fill = "const" -> 0
    [] fill = "index" -> LinearIndex(i, shape)
    [] fill = "depth" -> i[2] % 2

Volume(shape, fill) ==
  [shape |-> shape,
   data  |-> [i \in Indices(shape) |-> Voxel(fill, i, shape)]]

Volumes ==
  {Volume(<<c, d, h, w>>, fill) :
     c \in 1..MaxChan, d \in 1..MaxDepth, h \in 1..MaxSide, w \in 1..MaxSide,
     fill \in Fills}

NoTensor == [shape |-> << >>, data |-> << >>]

\* What stands for the result of a call that raised.
Failed == [shape |-> <<-1>>, data |-> << >>]

\* The helpers' part of the state where no helper is under study.
IdleHelpers ==
  /\ vol = NoTensor
  /\ py = << >> /\ th = << >> /\ py2 = << >> /\ th2 = << >>
  /\ op = "none"
  /\ axis = -1 /\ turns = -1 /\ perm = << >>
  /\ outVol = NoTensor /\ outLabel = -1
  /\ out2Vol = NoTensor /\ out2Label = -1
  /\ seed = [py |-> << >>, th |-> << >>, py2 |-> << >>, th2 |-> << >>]

\* The batch part of the state where augment_batch is not under study.
IdleBatch ==
  /\ imgs = NoTensor
  /\ tf = "identity"
  /\ tfServed = 0
  /\ callLog = << >>
  /\ result = NoTensor
  /\ batchDone = FALSE

\* The pipeline part of the state where no pipeline is under study.
IdlePipes ==
  /\ mean = 0 /\ std = 1
  /\ pipes = << >>
  /\ running = 0 /\ pos = 0 /\ fired = << >>
  /\ sample = [image |-> << >>, label |-> << >>]

\* The classifier part of the state where the classifier is not under study.
IdleHead ==
  /\ lin = << >>
  /\ xRef = NoTensor /\ x = NoTensor
  /\ logitsRef = NoTensor /\ logits = NoTensor
  /\ inVols = << >>
  /\ cls = NoTensor
  /\ modelOut = NoTensor

notHelperVars == <<batchVars, pipeVars, headVars>>

----------------------------------------------------------------------------
(* Specification SpecRot: random_rotation_single on every input volume and *)
(* every state of Python's generator.                                      *)

InitRot ==
  /\ vol \in Volumes
  /\ py \in Streams(PyDraws)
  /\ th = << >>
  /\ op = "none"
  /\ axis = -1 /\ turns = -1 /\ perm = << >>
  /\ outVol = NoTensor /\ outLabel = -1
  /\ py2 = << >> /\ th2 = << >>
  /\ out2Vol = NoTensor /\ out2Label = -1
  /\ seed = [py |-> py, th |-> th, py2 |-> py2, th2 |-> th2]
  /\ IdleBatch
  /\ IdlePipes
  /\ IdleHead
  /\ IdleBatch
  /\ IdleBatch

\* One call of random_rotation_single(vol).
RotCall ==
  /\ Len(py) >= 2
  /\ LET r == RandomRotationSingle(vol, py, th) IN
       /\ outVol' = r.vol
       /\ outLabel' = r.label
       /\ axis' = r.axis
       /\ turns' = r.turns
       /\ py' = r.py
       /\ th' = r.th
  /\ op' = "rot"
  /\ perm' = << >>
  /\ UNCHANGED <<vol, py2, th2, out2Vol, out2Label, seed, notHelperVars>>

NextRot == RotCall

SpecRot == InitRot /\ [][NextRot]_vars

----------------------------------------------------------------------------
(* random_jigsaw_single *)

\* t[:, idx] and the like: along dimension dim, entry j of the result is
\* entry idx[j + 1] of t.
IndexSelect(t, dim, idx) ==
  [shape |-> [t.shape EXCEPT ![dim + 1] = Len(idx)],
   data  |-> [i \in Indices([t.shape EXCEPT ![dim + 1] = Len(idx)]) |->
                t.data[[i EXCEPT ![dim + 1] = idx[i[dim + 1] + 1]]]]]

\* Fault: the saved entry is not written back.
SwapEntriesLosesSaved(r, a, b) == [r EXCEPT ![a] = r[b]]

\* Exchange entries a and b of r.
SwapEntries(r, a, b) == [r EXCEPT ![a] = r[b], ![b] = r[a]]

\* The loop of torch.randperm on the CPU: for i = 0 .. n-2, draw
\* z = random() % (n - i) and exchange r[i] with r[z + i].  r holds the
\* 0-based values at positions 1..n.
RECURSIVE Shuffle(_, _, _)
Shuffle(r, i, t) ==
  IF i >= Len(r) - 1 THEN [perm |-> r, th |-> t]
  ELSE LET z == t[1] % (Len(r) - i)
       IN Shuffle(SwapEntries(r, i + 1, z + i + 1), i + 1, Tail(t))

\* torch.randperm(n) from generator state t: the permutation and the state
\* the generator is left in.
RandPerm(n, t) == Shuffle([j \in 1..n |-> j - 1], 0, t)

\* random_jigsaw_single(v) from generator states p (Python's) and t
\* (torch's): the coin is drawn from p, the permutation from t.
RandomJigsawSingle(v, p, t) ==
  IF CoinBelowHalf(p[1])
  THEN LET d == RandPerm(v.shape[2], t)
       IN [vol |-> IndexSelect(v, 1, d.perm), label |-> 1, perm |-> d.perm,
           py |-> Tail(p), th |-> d.th]
  ELSE [vol |-> v, label |-> 0, perm |-> << >>, py |-> Tail(p), th |-> t]

\* Volumes for the jigsaw: every depth, slices of MaxSide by 1 voxels.
JigVolumes ==
  {Volume(<<c, d, MaxSide, 1>>, fill) :
     c \in 1..MaxChan, d \in 1..MaxDepth, fill \in Fills}

\* Another seed of a generator: every raw draw moved by one.
Reseed(t) == [j \in 1..Len(t) |-> (t[j] + 1) % RawSize]

----------------------------------------------------------------------------
(* Specification SpecJig: one call of random_jigsaw_single on every jigsaw *)
(* volume, every coin draw of Python's generator and every state of        *)
(* torch's generator.                                                      *)

InitJig ==
  /\ vol \in JigVolumes
  /\ py \in Streams(1)
  /\ th \in Streams(MaxDepth - 1)
  /\ op = "none"
  /\ axis = -1 /\ turns = -1 /\ perm = << >>
  /\ outVol = NoTensor /\ outLabel = -1
  /\ py2 = << >> /\ th2 = << >>
  /\ out2Vol = NoTensor /\ out2Label = -1
  /\ seed = [py |-> py, th |-> th, py2 |-> py2, th2 |-> th2]
  /\ IdleBatch
  /\ IdlePipes
  /\ IdleHead
  /\ IdleBatch
  /\ IdleBatch

\* One call of random_jigsaw_single(vol).
JigCall ==
  /\ Len(py) >= 1
  /\ Len(th) >= vol.shape[2] - 1
  /\ LET r == RandomJigsawSingle(vol, py, th) IN
       /\ outVol' = r.vol
       /\ outLabel' = r.label
       /\ perm' = r.perm
       /\ py' = r.py
       /\ th' = r.th
  /\ op' = "jig"
  /\ axis' = -1 /\ turns' = -1
  /\ UNCHANGED <<vol, py2, th2, out2Vol, out2Label, seed, notHelperVars>>

NextJig == JigCall

SpecJig == InitJig /\ [][NextJig]_vars

----------------------------------------------------------------------------
(* Specification SpecRng: two runs make the same calls on the same volume; *)
(* each run has its own two generators, started from states that are equal *)
(* or different between the runs.                                          *)

RngVolumes ==
  {Volume(<<1, d, 1, 1>>, "index") : d \in 1..MaxDepth}

InitRng ==
  /\ vol \in RngVolumes
  /\ py \in Streams(PyDraws)
  /\ th \in Streams(MaxDepth - 1)
  /\ py2 \in {py, Reseed(py)}
  /\ th2 \in {th, Reseed(th)}
  /\ op = "none"
  /\ axis = -1 /\ turns = -1 /\ perm = << >>
  /\ outVol = NoTensor /\ outLabel = -1
  /\ out2Vol = NoTensor /\ out2Label = -1
  /\ seed = [py |-> py, th |-> th, py2 |-> py2, th2 |-> th2]
  /\ IdleBatch
  /\ IdlePipes
  /\ IdleHead
  /\ IdleBatch
  /\ IdleBatch

\* Both runs call random_rotation_single(vol).
RngRot ==
  /\ Len(py) >= 2 /\ Len(py2) >= 2
  /\ LET r == RandomRotationSingle(vol, py, th)
         q == RandomRotationSingle(vol, py2, th2)
     IN /\ outVol' = r.vol /\ outLabel' = r.label
        /\ axis' = r.axis /\ turns' = r.turns
        /\ py' = r.py /\ th' = r.th
        /\ out2Vol' = q.vol /\ out2Label' = q.label
        /\ py2' = q.py /\ th2' = q.th
  /\ op' = "rot"
  /\ perm' = << >>
  /\ UNCHANGED <<vol, seed, notHelperVars>>

\* Both runs call random_jigsaw_single(vol).
RngJig ==
  /\ Len(py) >= 1 /\ Len(py2) >= 1
  /\ Len(th) >= vol.shape[2] - 1 /\ Len(th2) >= vol.shape[2] - 1
  /\ LET r == RandomJigsawSingle(vol, py, th)
         q == RandomJigsawSingle(vol, py2, th2)
     IN /\ outVol' = r.vol /\ outLabel' = r.label
        /\ perm' = r.perm
        /\ py' = r.py /\ th' = r.th
        /\ out2Vol' = q.vol /\ out2Label' = q.label
        /\ py2' = q.py /\ th2' = q.th
  /\ op' = "jig"
  /\ axis' = -1 /\ turns' = -1
  /\ UNCHANGED <<vol, seed, notHelperVars>>

NextRng == RngRot \/ RngJig

SpecRng == InitRng /\ [][NextRng]_vars

----------------------------------------------------------------------------
(* augment_batch *)

\* Index tuple i with j put in at position at; sequence s without its
\* entry at position at.
InsertAt(i, at, j) == SubSeq(i, 1, at - 1) \o <<j>> \o SubSeq(i, at, Len(i))

RemoveAt(s, at) == SubSeq(s, 1, at - 1) \o SubSeq(s, at + 1, Len(s))

\* t[j] along dimension dim (t[j] for dim = 0, t[:, j] for dim = 1): the
\* dimension is dropped.  Failed when t has no such dimension or entry.
Select(t, dim, j) ==
  IF Len(t.shape) <= dim \/ t.shape[1] < 0 THEN Failed
  ELSE IF j >= t.shape[dim + 1] THEN Failed
  ELSE [shape |-> RemoveAt(t.shape, dim + 1),
        data  |-> [i \in Indices(RemoveAt(t.shape, dim + 1)) |->
                     t.data[InsertAt(i, dim + 1, j)]]]

\* The transforms augment_batch is tried with.  Each takes the mapping
\* {"image": sample} and returns it with the sample replaced:
\*   identity  the pipeline whose stages never trigger: the sample itself
\*   negate    every element negated
\*   count     every element raised by the number of calls served before
\*             (a transform with a state of its own)
\*   crop      the sample cut after its last non-zero element (the result's
\*             shape depends on the data)
Transforms == {"identity", "negate", "count", "crop"}

CropLen(s) ==
  LET nz == {j \in 0..(s.shape[1] - 1) : s.data[<<j>>] # 0}
  IN IF nz = {} THEN 0 ELSE 1 + CHOOSE j \in nz : \A m \in nz : m <= j

\* tf(m) for the transform of the given kind that has served n calls.
TfApply(kind, n, m) ==
  LET s == m.image IN
  CASE kind = "identity" -> m
    [] kind = "negate" ->
         [image |-> [shape |-> s.shape,
                     data |-> [i \in DOMAIN s.data |-> 0 - s.data[i]]]]
    [] kind = "count" ->
         [image |-> [shape |-> s.shape,
                     data |-> [i \in DOMAIN s.data |-> s.data[i] + n]]]
    [] kind = "crop" ->
         [image |-> [shape |-> <<CropLen(s)>>,
                     data |-> [i \in Indices(<<CropLen(s)>>) |-> s.data[i]]]]

\* torch.stack(list): a new leading dimension over tensors of one shape;
\* it raises on an empty list and on tensors of different shapes.
Stack(list) ==
  IF Len(list) = 0 THEN Failed
  ELSE IF \E j \in 1..Len(list) : list[j].shape # list[1].shape THEN Failed
  ELSE [shape |-> <<Len(list)>> \o list[1].shape,
        data  |-> [i \in Indices(<<Len(list)>> \o list[1].shape) |->
                     list[i[1] + 1].data[Tail(i)]]]

\* The calls [tf({"image": s}) for s in imgs] from sample i on, for a
\* transform that has served n calls: each call's argument and return.
RECURSIVE Calls(_, _, _, _)
Calls(batch, kind, n, i) ==
  IF i >= batch.shape[1] THEN << >>
  ELSE LET arg == [image |-> Select(batch, 0, i)]
       IN <<[arg |-> arg, ret |-> TfApply(kind, n, arg)]>>
            \o Calls(batch, kind, n + 1, i + 1)

\* Fault: every call is given the first sample.
AugmentBatchEverySampleIsFirst(batch, kind, n) ==
  LET N == batch.shape[1]
      c == [j \in 1..N |->
              LET arg == [image |-> Select(batch, 0, 0)]
              IN [arg |-> arg, ret |-> TfApply(kind, n + j - 1, arg)]]
  IN [out    |-> Stack([j \in 1..N |-> c[j].ret.image]),
      log    |-> [j \in 1..N |-> c[j].arg],
      served |-> n + N]

\* augment_batch(batch, tf): the stacked "image" entries of the calls, the
\* arguments tf was called with, and the number of calls tf has served.
AugmentBatch(batch, kind, n) ==
  LET c == Calls(batch, kind, n, 0)
  IN [out    |-> Stack([j \in 1..Len(c) |-> c[j].ret.image]),
      log    |-> [j \in 1..Len(c) |-> c[j].arg],
      served |-> n + Len(c)]

\* Batches of N samples of SampleLen elements, each element 0 or 1.
Batches ==
  UNION {{[shape |-> <<N, SampleLen>>, data |-> d] :
            d \in [Indices(<<N, SampleLen>>) -> 0..1]} : N \in 0..MaxBatch}

----------------------------------------------------------------------------
(* Specification SpecBatch: augment_batch on every batch and transform.    *)

InitBatch ==
  /\ IdleHelpers
  /\ IdlePipes
  /\ IdleHead
  /\ imgs \in Batches
  /\ tf \in Transforms
  /\ tfServed = 0
  /\ callLog = << >>
  /\ result = NoTensor
  /\ batchDone = FALSE

\* One call of augment_batch(imgs, tf).
AugmentCall ==
  /\ ~batchDone
  /\ LET r == AugmentBatch(imgs, tf, tfServed) IN
       /\ result' = r.out
       /\ callLog' = r.log
       /\ tfServed' = r.served
  /\ batchDone' = TRUE
  /\ UNCHANGED <<imgs, tf, helperVars, pipeVars, headVars>>

NextBatch == AugmentCall

SpecBatch == InitBatch /\ [][NextBatch]_vars

----------------------------------------------------------------------------
(* get_monai_augment, build_transforms *)

\* A stage of a pipeline: the MONAI transform's class, the key it is given,
\* whether it is a random transform, its trigger probability in percent
\* (100 for a transform that always applies) and its other arguments as
\* written in the source.
Stage(kind, random, prob, params) ==
  [kind |-> kind, keys |-> "image", random |-> random, prob |-> prob,
   params |-> params]

\* The nine random stages every augmentation pipeline starts with.
AugStages ==
  << Stage("RandFlipd", TRUE, 50, <<"spatial_axis=[0]">>),
     Stage("RandFlipd", TRUE, 50, <<"spatial_axis=[1]">>),
     Stage("RandFlipd", TRUE, 50, <<"spatial_axis=[2]">>),
     Stage("RandAffined", TRUE, 70,
           <<"rotate_range=(pi/36,)*3", "translate_range=(4,4,4)",
             "scale_range=(0.05,)*3", "padding_mode=border">>),
     Stage("RandAdjustContrastd", TRUE, 30, <<"gamma=(0.7,1.4)">>),
     Stage("RandScaleIntensityd", TRUE, 30, <<"factors=0.15">>),
     Stage("RandShiftIntensityd", TRUE, 30, <<"offsets=0.10">>),
     Stage("RandGaussianNoised", TRUE, 25, <<"mean=0", "std=0.01">>),
     Stage("RandGaussianSmoothd", TRUE, 15,
           <<"sigma_x=(0,1)", "sigma_y=(0,1)", "sigma_z=(0,1)">>) >>

CoarseStage ==
  Stage("RandCoarseDropoutd", TRUE, 20,
        <<"holes=4", "spatial_size=(16,16,16)", "max_holes=4",
          "fill_value=0">>)

EnsureTypedStage == Stage("EnsureTyped", FALSE, 100, << >>)

\* Fault: the coarse dropout takes the place of the smoothing stage.
GetMonaiAugmentCoarseReplacesSmooth(with_coarse) ==
  (IF with_coarse
   THEN SubSeq(AugStages, 1, Len(AugStages) - 1) \o <<CoarseStage>>
   ELSE AugStages)
  \o <<EnsureTypedStage>>

\* Fault: the coarse dropout is put first instead of appended.
GetMonaiAugmentCoarseFirst(with_coarse) ==
  (IF with_coarse THEN <<CoarseStage>> ELSE << >>)
  \o AugStages \o <<EnsureTypedStage>>

\* get_monai_augment(with_coarse): the list aug, the coarse dropout
\* appended if with_coarse, then EnsureTyped, wrapped in Compose.
GetMonaiAugment(with_coarse) ==
  AugStages
  \o (IF with_coarse THEN <<CoarseStage>> ELSE << >>)
  \o <<EnsureTypedStage>>

\* load_tf of build_transforms.
LoadTf(m, sd) ==
  << Stage("LoadImaged", FALSE, 100, <<"image_only=False", "reader=ITKReader">>),
     Stage("EnsureChannelFirstd", FALSE, 100, <<"strict_check=False">>),
     Stage("Orientationd", FALSE, 100, <<"axcodes=SAR">>),
     Stage("NormalizeIntensityd", FALSE, 100,
           <<"subtrahend=" \o ToString(m), "divisor=" \o ToString(sd)>>),
     EnsureTypedStage >>

\* build_transforms(mean, std)
BuildTransforms(m, sd) ==
  <<LoadTf(m, sd), GetMonaiAugment(FALSE), GetMonaiAugment(TRUE)>>

\* Whether a stage can trigger, and whether it can be skipped, on one
\* invocation: a transform that is not random always applies; a random one
\* draws against its own probability, whatever the earlier stages did.
CanTrigger(st) == ~st.random \/ st.prob > 0
CanSkip(st) == st.random /\ st.prob < 100

----------------------------------------------------------------------------
(* Specification SpecPipes: build_transforms, then invocations of the      *)
(* returned pipelines on a sample, stage by stage.                         *)

InitPipes ==
  /\ IdleHelpers
  /\ IdleBatch
  /\ IdleHead
  /\ mean \in 0..MaxNorm
  /\ std \in 1..(MaxNorm + 1)
  /\ pipes = << >>
  /\ running = 0 /\ pos = 0 /\ fired = << >>
  /\ sample = [image |-> << >>, label |-> << >>]

\* The call build_transforms(mean, std).
BuildCall ==
  /\ pipes = << >>
  /\ pipes' = BuildTransforms(mean, std)
  /\ UNCHANGED <<mean, std, running, pos, fired, sample, helperVars, batchVars, headVars>>

\* A pipeline is invoked on a fresh sample {"image": ..., "label": ...}.
Invoke ==
  /\ pipes # << >>
  /\ running = 0
  /\ \E p \in 1..Len(pipes) : running' = p
  /\ pos' = 0
  /\ fired' = << >>
  /\ sample' = [image |-> << >>, label |-> << >>]
  /\ UNCHANGED <<mean, std, pipes, helperVars, batchVars, headVars>>

\* The next stage triggers: it is applied to the entry under its key.
StageFire ==
  /\ running # 0
  /\ pos < Len(pipes[running])
  /\ LET st == pipes[running][pos + 1] IN
       /\ CanTrigger(st)
       /\ sample' = [sample EXCEPT ![st.keys] = Append(@, pos + 1)]
  /\ fired' = Append(fired, TRUE)
  /\ pos' = pos + 1
  /\ UNCHANGED <<mean, std, pipes, running, helperVars, batchVars, headVars>>

\* The next stage does not trigger: the sample passes unchanged.
StageSkip ==
  /\ running # 0
  /\ pos < Len(pipes[running])
  /\ CanSkip(pipes[running][pos + 1])
  /\ fired' = Append(fired, FALSE)
  /\ pos' = pos + 1
  /\ UNCHANGED <<mean, std, pipes, running, sample, helperVars, batchVars, headVars>>

\* The invocation returns the mapping.
Return ==
  /\ running # 0
  /\ pos = Len(pipes[running])
  /\ running' = 0
  /\ UNCHANGED <<mean, std, pipes, pos, fired, sample, helperVars, batchVars, headVars>>

NextPipes == BuildCall \/ Invoke \/ StageFire \/ StageSkip \/ Return

SpecPipes == InitPipes /\ [][NextPipes]_vars

----------------------------------------------------------------------------
(* EdemaHead, M3T_Edema *)

\* The sequence s without its last entry.
Front(s) == SubSeq(s, 1, Len(s) - 1)

\* w[c][0] * t[pre, 0] + ... + w[c][n-1] * t[pre, n-1]
RECURSIVE Dot(_, _, _, _)
Dot(wc, t, pre, n) ==
  IF n = 0 THEN 0
  ELSE Dot(wc, t, pre, n - 1) + wc[n] * t.data[pre \o <<n - 1>>]

\* nn.Linear(emb_size, classes) with parameters p applied to t: the last
\* dimension, which must have emb_size entries, is mapped to the classes;
\* it raises for any other last dimension.
Linear(p, t) ==
  IF t = Failed \/ Len(t.shape) = 0 THEN Failed
  ELSE IF t.shape[Len(t.shape)] # Len(p.w[1]) THEN Failed
  ELSE [shape |-> Front(t.shape) \o <<Len(p.w)>>,
        data  |-> [i \in Indices(Front(t.shape) \o <<Len(p.w)>>) |->
                     p.b[i[Len(i)] + 1]
                       + Dot(p.w[i[Len(i)] + 1], t, Front(i), Len(p.w[1]))]]

\* Fault: the last token is projected instead of token 0.
EdemaHeadForwardLastToken(p, t) ==
  Linear(p, Select(t, 1, t.shape[2] - 1))

\* EdemaHead.forward(x) == self.lin(x[:, 0])
EdemaHeadForward(p, t) == Linear(p, Select(t, 1, 0))

\* The parameter settings tried: weight[c][e] = s + c + e, bias[c] = c * s.
LinParams ==
  {[w |-> [c \in 1..Classes |-> [e \in 1..EmbSize |-> s + c + e]],
    b |-> [c \in 1..Classes |-> c * s]] : s \in 1..MaxLin}

\* An entry of 0..1 changed to the other value.
Toggle(v) == 1 - v

\* Embedding batches (B, T, EmbSize) of entries 0 and 1 laid out by fill:
\* all zero, or the parity of the row-major position.
Embeddings ==
  {[shape |-> <<B, T, EmbSize>>,
    data  |-> [i \in Indices(<<B, T, EmbSize>>) |->
                 IF f = 0 THEN 0
                 ELSE LinearIndex(i, <<B, T, EmbSize>>) % 2]] :
     B \in 1..MaxB, T \in 1..MaxTokens, f \in 0..1}

----------------------------------------------------------------------------
(* Specification SpecHead: EdemaHead.forward on an embedding batch and on  *)
(* copies of it whose tokens are changed one at a time.                    *)

InitHead ==
  /\ IdleHelpers
  /\ IdleBatch
  /\ IdlePipes
  /\ lin \in LinParams
  /\ xRef \in Embeddings
  /\ x = xRef
  /\ logitsRef = NoTensor /\ logits = NoTensor
  /\ inVols = << >>
  /\ cls = NoTensor
  /\ modelOut = NoTensor

\* Every entry of token t of batch element b of x is changed.
Perturb ==
  /\ \E b \in 0..(x.shape[1] - 1), t \in 0..(x.shape[2] - 1) :
       x' = [x EXCEPT !.data = [i \in DOMAIN x.data |->
                                 IF i[1] = b /\ i[2] = t
                                 THEN Toggle(x.data[i]) ELSE x.data[i]]]
  /\ logits' = NoTensor
  /\ UNCHANGED <<lin, xRef, logitsRef, inVols, cls, modelOut,
                 helperVars, batchVars, pipeVars>>

\* The head is called on xRef and on x.
HeadForward ==
  /\ logits = NoTensor
  /\ logitsRef' = EdemaHeadForward(lin, xRef)
  /\ logits' = EdemaHeadForward(lin, x)
  /\ UNCHANGED <<lin, xRef, x, inVols, cls, modelOut,
                 helperVars, batchVars, pipeVars>>

NextHead == Perturb \/ HeadForward

SpecHead == InitHead /\ [][NextHead]_vars

----------------------------------------------------------------------------
(* Specification SpecModel: M3T_Edema.forward.  The encoder is not part of *)
(* the sources; it is modelled as the specification describes it: it maps  *)
(* a batch of B volumes to a class-token embedding, one vector of emb_size *)
(* entries per volume, and auxiliary outputs.                              *)

\* The first value the encoder may return for a batch of B volumes: any
\* tensor (B, EmbSize) of entries 0 and 1.
EncoderCls(B) ==
  {[shape |-> <<B, EmbSize>>, data |-> d] :
     d \in [Indices(<<B, EmbSize>>) -> 0..1]}

InitModel ==
  /\ IdleHelpers
  /\ IdleBatch
  /\ IdlePipes
  /\ lin \in LinParams
  /\ xRef = NoTensor /\ x = NoTensor
  /\ logitsRef = NoTensor /\ logits = NoTensor
  /\ \E B \in 1..MaxB : inVols \in [1..B -> RngVolumes]
  /\ cls = NoTensor
  /\ modelOut = NoTensor

\* M3T_Edema.forward(x): cls, _ = self.encoder(x); return self.head(cls)
ModelForward ==
  /\ modelOut = NoTensor
  /\ \E c \in EncoderCls(Len(inVols)) :
       /\ cls' = c
       /\ modelOut' = EdemaHeadForward(lin, c)
  /\ UNCHANGED <<lin, xRef, x, logitsRef, logits, inVols,
                 helperVars, batchVars, pipeVars>>

NextModel == ModelForward

SpecModel == InitModel /\ [][NextModel]_vars

----------------------------------------------------------------------------
(* Claims about random_rotation_single, under SpecRot. *)

\* Every result random_rotation_single can return for volume v: one per
\* state of Python's generator.
RotationResults(v) ==
  {RandomRotationSingle(v, p, << >>) : p \in Streams(2)}

\* C1: the label random_rotation_single returns is axis * 4 + k for the
\* drawn axis in 0..2 and k in 0..3; it lies in 0..11; and the twelve pairs
\* give twelve different labels, each value of 0..11 coming from exactly one
\* pair (the pair is recovered from the label by division by 4).
C1_LabelIsAxisTimesFourPlusTurns ==
  /\ op = "rot" =>
       /\ axis \in 0..2 /\ turns \in 0..3
       /\ outLabel = axis * 4 + turns
       /\ outLabel \in 0..11
       /\ axis = outLabel \div 4 /\ turns = outLabel % 4
  /\ op = "none" =>
       LET res == RotationResults(vol) IN
         /\ {r.label : r \in res} = 0..11
         /\ \A r1, r2 \in res :
              r1.label = r2.label => r1.axis = r2.axis /\ r1.turns = r2.turns
         /\ \A r \in res : r.label = r.axis * 4 + r.turns

\* C1 witness: the last pair, axis 2 with three turns, returned label 11.
C1_Witness ==
  op = "rot" /\ axis = 2 /\ turns = 3 /\ outLabel = 11

\* The plane the claim names for each axis.
ClaimPlane(a) ==
  CASE a = 0 -> <<2, 3>>
    [] a = 1 -> <<1, 3>>
    [] a = 2 -> <<1, 2>>

\* C2: rotating the volume random_rotation_single returned by 4 - k quarter
\* turns in the plane of the drawn axis gives back the input volume, shape
\* and every element, also when the three spatial sizes differ.
C2_InverseRotationRestoresVolume ==
  op = "rot" =>
    /\ Rot90(outVol, 4 - turns, ClaimPlane(axis)) = vol
    /\ Rot90(outVol, 4 - turns, ClaimPlane(axis)).shape = vol.shape

\* C2 witness: one quarter turn of a volume of all-different voxels whose
\* rotated plane is not square: the returned volume has another shape.
C2_Witness ==
  /\ op = "rot" /\ turns = 1 /\ axis = 1
  /\ vol.shape[2] # vol.shape[4]
  /\ outVol.shape # vol.shape
  /\ Cardinality({vol.data[i] : i \in DOMAIN vol.data}) > 1

\* C10: with zero turns every axis returns the input volume itself, under
\* the three different labels 0, 4 and 8, so the label is not determined by
\* the returned volume, and the twelve labels stand for at most ten
\* different results.
C10_ZeroTurnsSameVolumeThreeLabels ==
  /\ (op = "rot" /\ turns = 0) => (outVol = vol /\ outLabel = axis * 4)
  /\ op = "none" =>
       LET res == RotationResults(vol) IN
         /\ \A r \in res : r.turns = 0 => r.vol = vol
         /\ {r.label : r \in {q \in res : q.vol = vol /\ q.turns = 0}}
              = {0, 4, 8}
         /\ \E r1, r2 \in res : r1.vol = r2.vol /\ r1.label # r2.label
         /\ Cardinality({r.vol : r \in res}) <= 10

\* C10 witness: axis 2 with zero turns returned the input, labelled 8, for
\* a volume on which the ten rotations all differ.
C10_Witness ==
  /\ op = "rot" /\ turns = 0 /\ axis = 2 /\ outLabel = 8 /\ outVol = vol
  /\ vol.shape = <<1, 2, 2, 2>>
  /\ Cardinality({r.vol : r \in RotationResults(vol)}) = 10

----------------------------------------------------------------------------
(* Claims about random_jigsaw_single, under SpecJig. *)

\* Depth slice j of a volume: t[:, j].
DepthSlice(t, j) == IndexSelect(t, 1, <<j>>)

\* How many depth slices of t equal s.
SliceCount(t, s) ==
  Cardinality({j \in 0..(t.shape[2] - 1) : DepthSlice(t, j) = s})

\* C3: random_jigsaw_single returns label 0 or 1 and nothing else.  With
\* label 0 the returned volume is the input.  With label 1 it has the
\* input's shape, the applied index map is a permutation of 0..D-1, slice j
\* of the result is slice perm[j] of the input, and the two volumes hold
\* the same depth slices as multisets.
C3_JigsawKeepsSlices ==
  op = "jig" =>
    /\ outLabel \in {0, 1}
    /\ outLabel = 0 => outVol = vol
    /\ outLabel = 1 =>
         LET D == vol.shape[2] IN
           /\ outVol.shape = vol.shape
           /\ Len(perm) = D
           /\ {perm[j] : j \in 1..D} = 0..(D - 1)
           /\ \A j \in 0..(D - 1) :
                DepthSlice(outVol, j) = DepthSlice(vol, perm[j + 1])
           /\ \A j \in 0..(D - 1) :
                /\ SliceCount(outVol, DepthSlice(vol, j))
                     = SliceCount(vol, DepthSlice(vol, j))
                /\ SliceCount(vol, DepthSlice(outVol, j))
                     = SliceCount(outVol, DepthSlice(outVol, j))

\* C3 witness: label 1 with three slices actually moved.
C3_Witness ==
  /\ op = "jig" /\ outLabel = 1
  /\ vol.shape[2] = 3
  /\ outVol # vol
  /\ perm = <<2, 0, 1>>

----------------------------------------------------------------------------
(* Claims about reproducibility, under SpecRng. *)

\* C4 as stated: two runs that start from the same state of the one
\* generator (Python's) and make the same calls return the same volumes and
\* labels.
C4_Original_SameResultsFromOneGenerator ==
  (seed.py = seed.py2 /\ op # "none") =>
    (outVol = out2Vol /\ outLabel = out2Label)

\* C4 amended: the helpers draw from two generators.  Two runs that start
\* from the same state of Python's generator and the same state of torch's
\* generator return the same volumes and labels and leave both generators
\* in the same states.  Two runs that agree on Python's generator alone
\* agree on every label and on every rotated volume.
C4_SameResultsFromBothGenerators ==
  /\ (seed.py = seed.py2 /\ seed.th = seed.th2 /\ op # "none") =>
       /\ outVol = out2Vol /\ outLabel = out2Label
       /\ py = py2 /\ th = th2
  /\ (seed.py = seed.py2 /\ op # "none") =>
       /\ outLabel = out2Label
       /\ py = py2
       /\ op = "rot" => outVol = out2Vol

\* C4 witness: both runs started from equal states of both generators and
\* the jigsaw permuted the slices, in the same way.
C4_Witness ==
  /\ seed.py = seed.py2 /\ seed.th = seed.th2
  /\ op = "jig" /\ outLabel = 1 /\ out2Label = 1
  /\ outVol # vol /\ outVol = out2Vol

----------------------------------------------------------------------------
(* Claims about augment_batch, under SpecBatch. *)

\* What the claim says of a returned batch: N entries, entry i the "image"
\* of tf called on sample i alone, the calls made once per sample in input
\* order, and the input itself for the identity transform.
BatchIsTransformedSampleBySample ==
  LET N == imgs.shape[1] IN
    /\ result # Failed
    /\ result.shape[1] = N
    /\ Len(callLog) = N
    /\ tfServed = N
    /\ \A i \in 0..(N - 1) :
         /\ callLog[i + 1] = [image |-> Select(imgs, 0, i)]
         /\ Select(result, 0, i)
              = TfApply(tf, i, [image |-> Select(imgs, 0, i)]).image
    /\ tf = "identity" => result = imgs

\* C5 as stated: for every batch of N samples and every transform,
\* augment_batch returns a batch of N entries, entry i being
\* tf({"image": imgs[i]})["image"].
C5_Original_EveryBatchIsTransformed ==
  batchDone => BatchIsTransformedSampleBySample

\* The shapes of the samples the transform returns for the batch.
ReturnedShapes ==
  {TfApply(tf, i, [image |-> Select(imgs, 0, i)]).image.shape :
     i \in 0..(imgs.shape[1] - 1)}

\* C5 amended: augment_batch calls tf once per sample, in input order, on
\* the sample wrapped alone under "image".  It raises when the batch is
\* empty or the returned samples differ in shape; otherwise (N >= 1, one
\* shape) it returns N entries, entry i being tf({"image": imgs[i]})["image"],
\* and the input batch itself when tf leaves every sample unchanged.
C5_NonEmptyBatchIsTransformed ==
  batchDone =>
    /\ Len(callLog) = imgs.shape[1]
    /\ \A i \in 0..(imgs.shape[1] - 1) :
         callLog[i + 1] = [image |-> Select(imgs, 0, i)]
    /\ result = Failed <=> Cardinality(ReturnedShapes) # 1
    /\ (imgs.shape[1] >= 1 /\ Cardinality(ReturnedShapes) = 1)
         => BatchIsTransformedSampleBySample

\* C5 witness: a returned batch of two different samples, changed by a
\* transform whose result depends on the order of the calls.
C5_Witness ==
  /\ batchDone /\ result # Failed
  /\ imgs.shape[1] = 2
  /\ tf = "count"
  /\ Select(imgs, 0, 0) # Select(imgs, 0, 1)
  /\ result # imgs

----------------------------------------------------------------------------
(* Claims about the pipelines, under SpecPipes. *)

IsCoarse(st) == st.kind = "RandCoarseDropoutd"
IsNotCoarse(st) == ~IsCoarse(st)
IsRandom(st) == st.random

\* C6: build_transforms returns exactly three pipelines; the third holds
\* exactly one coarse-dropout stage, the second none, and the third without
\* that stage is the second: the same stages, with the same arguments, in
\* the same order.
C6_ThirdIsSecondPlusCoarseDropout ==
  pipes # << >> =>
    /\ Len(pipes) = 3
    /\ Len(SelectSeq(pipes[3], IsCoarse)) = 1
    /\ Len(SelectSeq(pipes[2], IsCoarse)) = 0
    /\ Len(pipes[3]) = Len(pipes[2]) + 1
    /\ SelectSeq(pipes[3], IsNotCoarse) = pipes[2]

\* C6 witness: build_transforms has returned, with a mean and a deviation
\* other than 0 and 1, and the third pipeline is one stage longer.
C6_Witness ==
  /\ pipes # << >>
  /\ mean = 1 /\ std = 2
  /\ Len(pipes[3]) = 11 /\ Len(pipes[2]) = 10

\* The random stages the claim lists, in its order: the class, and for a
\* flip its axis.
ClaimedRandomStages ==
  << <<"RandFlipd", "spatial_axis=[0]">>,
     <<"RandFlipd", "spatial_axis=[1]">>,
     <<"RandFlipd", "spatial_axis=[2]">>,
     <<"RandAffined", "">>,
     <<"RandAdjustContrastd", "">>,
     <<"RandScaleIntensityd", "">>,
     <<"RandShiftIntensityd", "">>,
     <<"RandGaussianNoised", "">>,
     <<"RandGaussianSmoothd", "">> >>

StageName(st) ==
  <<st.kind, IF st.kind = "RandFlipd" THEN st.params[1] ELSE "">>

RandomStageNames(pipe) ==
  LET r == SelectSeq(pipe, IsRandom) IN [j \in 1..Len(r) |-> StageName(r[j])]

\* The positions 1..n at which the flags say TRUE, in increasing order.
RECURSIVE TruePositions(_, _)
TruePositions(flags, n) ==
  IF n = 0 THEN << >>
  ELSE TruePositions(flags, n - 1) \o (IF flags[n] THEN <<n>> ELSE << >>)

----------------------------------------------------------------------------
(* Claims about EdemaHead, under SpecHead. *)

\* Token 0 of every batch element: t[:, 0].
TokenZero(t) == Select(t, 1, 0)

\* C8: for an embedding batch (B, T, E) with E the head's emb_size the
\* logits have shape (B, 2), and two batches that agree at token 0 of every
\* batch element give the same logits, whatever their other tokens hold.
C8_LogitsDependOnTokenZeroOnly ==
  logits # NoTensor =>
    /\ logits.shape = <<x.shape[1], 2>>
    /\ logitsRef.shape = <<xRef.shape[1], 2>>
    /\ TokenZero(x) = TokenZero(xRef) => logits = logitsRef

\* C8 witness: a batch that differs from the reference at another token
\* but not at token 0, with the same logits, under a head whose logits do
\* change with token 0.
C8_Witness ==
  /\ logits # NoTensor
  /\ x # xRef
  /\ TokenZero(x) = TokenZero(xRef)
  /\ logits = logitsRef
  /\ x.shape[1] = 2 /\ x.shape[2] = 2
  /\ \E e \in 0..(EmbSize - 1) :
       EdemaHeadForward(lin, [x EXCEPT !.data[<<0, 0, e>>] = Toggle(@)])
         # logits

----------------------------------------------------------------------------
(* Claims about M3T_Edema, under SpecModel. *)

====
